---- MODULE Spec2Model ----
(***************************************************************************)
(* Model of parlai/core/metrics.py (KBRD): the Metrics accumulator         *)
(* (update / update_ranking_metrics / report / clear), the scorer          *)
(* functions it calls, and aggregate_metrics.                              *)
(*                                                                         *)
(* Numbers.  Python ints and floats of the table are kept in one           *)
(* fixed-point representation: the number x is the integer x * One.        *)
(* So "cnt += 1" adds One, and a score of 0.5 is One \div 2.               *)
(*                                                                         *)
(* Text.  A string is a sequence of tokens (its whitespace-separated       *)
(* words; a punctuation mark is a token of its own).                       *)
(***************************************************************************)
EXTENDS Integers, Sequences, FiniteSets, Bags, TLC

\* ------------------------------------------------------------------ numbers
One == 60

\* An optional value (a dict key that may be missing, an argument that may be
\* None) is a sequence of length at most one.
None == << >>
Some(x) == <<x>>
Val(o) == o[1]

Max(a, b) == IF a >= b THEN a ELSE b
Min(a, b) == IF a <= b THEN a ELSE b
Abs(a) == IF a >= 0 THEN a ELSE 0 - a

RECURSIVE Pow10(_)
Pow10(k) == IF k <= 0 THEN 1 ELSE 10 * Pow10(k - 1)

RECURSIVE SumSet(_, _)
\* sum(f[x] for x in S)
SumSet(S, f) ==
    IF S = {} THEN 0
    ELSE LET x == CHOOSE y \in S : TRUE IN f[x] + SumSet(S \ {x}, f)

Range(s) == {s[i] : i \in 1..Len(s)}

\* A decimal number m * 10^e; the canonical form has no trailing zero in m.
RECURSIVE Strip(_)
Strip(d) ==
    IF d.m = 0 THEN [m |-> 0, e |-> 0]
    ELSE IF d.m % 10 = 0 THEN Strip([m |-> d.m \div 10, e |-> d.e + 1])
    ELSE d

Dec0 == [m |-> 0, e |-> 0]

\* floor(log10(num / den)) for num, den > 0
Log10Floor(num, den) ==
    CHOOSE e \in -5..5 :
        /\ IF e >= 0 THEN num >= den * Pow10(e) ELSE num * Pow10(0 - e) >= den
        /\ IF e + 1 >= 0 THEN num < den * Pow10(e + 1)
                         ELSE num * Pow10(0 - (e + 1)) < den

\* parlai.core.utils.round_sigfigs(num / den, sigfigs): the quotient rounded
\* to `sigfigs` significant figures, as a canonical decimal.
round_sigfigs(num, den, sigfigs) ==
    IF num = 0 THEN Dec0
    ELSE LET a == Abs(num)
             s == IF num < 0 THEN 0 - 1 ELSE 1
             digits == sigfigs - 1 - Log10Floor(a, den)   \* decimals kept
             q == IF digits >= 0
                    THEN (2 * a * Pow10(digits) + den) \div (2 * den)
                    ELSE (2 * a + den * Pow10(0 - digits))
                            \div (2 * den * Pow10(0 - digits))
         IN Strip([m |-> s * q, e |-> 0 - digits])

\* ------------------------------------------------------------------- text
Articles == {"a", "an", "the"}
Punct == {"!"}

lower(tok) == IF tok = "X" THEN "x" ELSE IF tok = "The" THEN "the" ELSE tok

\* normalize_answer: lower, punctuation to spaces, articles to spaces,
\* whitespace collapsed.  On tokens: map lower, drop punctuation and articles.
normalize_answer(s) ==
    LET lowered == [i \in 1..Len(s) |-> lower(s[i])]
        remove_punc == SelectSeq(lowered, LAMBDA t : t \notin Punct)
        remove_articles == SelectSeq(remove_punc, LAMBDA t : t \notin Articles)
    IN remove_articles

\* _exact_match(guess, answers); False without a guess or without answers
_exact_match(guess, answers) ==
    IF guess = None \/ answers = None THEN FALSE
    ELSE \E i \in 1..Len(Val(answers)) :
            normalize_answer(Val(guess)) = normalize_answer(Val(answers)[i])

\* collections.Counter of a sequence: item -> number of occurrences
Counter(seq) ==
    [x \in Range(seq) |-> Cardinality({i \in 1..Len(seq) : seq[i] = x})]

\* _prec_recall_f1_score(...)[2]
_prec_recall_f1_score(pred_items, gold_items) ==
    LET cp == Counter(pred_items)
        cg == Counter(gold_items)
        common == [x \in (DOMAIN cp) \cap (DOMAIN cg) |-> Min(cp[x], cg[x])]
        num_same == SumSet(DOMAIN common, common)
        precision == (One * num_same) \div Len(pred_items)
        recall == (One * num_same) \div Len(gold_items)
    IN IF num_same = 0 THEN 0
       ELSE (2 * precision * recall) \div (precision + recall)

ValueError == "ValueError"
TypeError == "TypeError"
KeyError == "KeyError"

RECURSIVE MaxOf(_)
MaxOf(S) ==
    LET x == CHOOSE y \in S : TRUE
    IN IF S = {x} THEN x ELSE Max(x, MaxOf(S \ {x}))

\* _f1_score raises: max() of an empty list is a ValueError
_f1_score_raises(guess, answers) ==
    guess # None /\ answers # None /\ Len(Val(answers)) = 0

\* _f1_score: 0 without a guess or without answers (None), else the best
\* score over the answers
_f1_score(guess, answers) ==
    IF guess = None \/ answers = None THEN 0
    ELSE MaxOf({_prec_recall_f1_score(normalize_answer(Val(guess)),
                                      normalize_answer(Val(answers)[i]))
                    : i \in 1..Len(Val(answers))})

\* _ngram(seq, n) as a sequence of n-grams
_ngram(seq, n) ==
    IF Len(seq) - n + 1 <= 0 THEN << >>
    ELSE [i \in 1..(Len(seq) - n + 1) |-> SubSeq(seq, i, i + n - 1)]

\* _intra_distinct: max(len(counts), 1e-12) / max(sum(counts.values()), 1e-5);
\* without n-grams this is 1e-7, which is 0 at the resolution 1/One.
_intra_distinct(guess, ngram) ==
    LET counts == Counter(_ngram(normalize_answer(guess), ngram))
        total == SumSet(DOMAIN counts, counts)
    IN IF total = 0 THEN 0
       ELSE (One * Cardinality(DOMAIN counts)) \div total

\* _inter_distinct as it would be without normalize_answer
_inter_distinct_raw(guess, ngram) == Counter(_ngram(guess, ngram))

\* _inter_distinct: the Counter of the n-grams of the normalized guess
_inter_distinct(guess, ngram) == Counter(_ngram(normalize_answer(guess), ngram))

\* ------------------------------------------------------------- table keys
\* Python builds key names with string operations; strings are atomic here, so
\* each operation is tabulated over the names the model uses.

NgramOrders == 1..4

BleuKey(i) == <<"bleu-1", "bleu-2", "bleu-3", "bleu-4">>[i]
IntraKey(i) ==
    <<"intra-distinct-1", "intra-distinct-2", "intra-distinct-3",
      "intra-distinct-4">>[i]
InterKey(i) ==
    <<"inter-distinct-1", "inter-distinct-2", "inter-distinct-3",
      "inter-distinct-4">>[i]
RougeKeys == <<"rouge-1", "rouge-2", "rouge-l">>

BleuKeys == {BleuKey(i) : i \in NgramOrders}
IntraKeys == {IntraKey(i) : i \in NgramOrders}
InterKeys == {InterKey(i) : i \in NgramOrders}

eval_pr == <<1, 5, 10, 100>>
HitsKey(k) ==
    CASE k = 1 -> "hits@1" [] k = 5 -> "hits@5" [] k = 10 -> "hits@10"
      [] k = 100 -> "hits@100"

crs_metrics == <<"bleu", "rouge", "intra-distinct", "inter-distinct">>

\* k + '_cnt'
CntKey(k) ==
    CASE k = "mean_rank" -> "mean_rank_cnt"
      [] k = "loss" -> "loss_cnt"
      [] k = "correct" -> "correct_cnt"
      [] k = "f1" -> "f1_cnt"
      [] k = "ppl" -> "ppl_cnt"
      [] k = "bleu" -> "bleu_cnt"
      [] k = "rouge" -> "rouge_cnt"
      [] k = "intra-distinct" -> "intra-distinct_cnt"
      [] k = "inter-distinct" -> "inter-distinct_cnt"
      [] k = "hits@" -> "hits@_cnt"
      [] k = "cnt" -> "cnt_cnt"
      [] k = "reward" -> "reward_cnt"
      [] k = "tok-acc" -> "tok-acc_cnt"
      [] k = "tok" -> "tok_cnt"
      [] k = "bleu-1" -> "bleu-1_cnt"
      [] k = "bleu-2" -> "bleu-2_cnt"
      [] k = "bleu-3" -> "bleu-3_cnt"
      [] k = "bleu-4" -> "bleu-4_cnt"
      [] k = "rouge-1" -> "rouge-1_cnt"
      [] k = "rouge-2" -> "rouge-2_cnt"
      [] k = "rouge-l" -> "rouge-l_cnt"
      [] k = "rouge-w" -> "rouge-w_cnt"
      [] k = "hits@1" -> "hits@1_cnt"
      [] k \in IntraKeys -> "intra-distinct-n_cnt"
      [] k \in InterKeys -> "inter-distinct-n_cnt"

\* k.rsplit('-', 1)[0]
RsplitHead(k) ==
    CASE k \in BleuKeys -> "bleu"
      [] k \in Range(RougeKeys) \cup {"rouge-w"} -> "rouge"
      [] k \in IntraKeys -> "intra-distinct"
      [] k \in InterKeys -> "inter-distinct"
      [] k = "tok-acc" -> "tok"
      [] OTHER -> k

\* k.startswith(prefix), for the prefixes of crs_metrics
StartsWith(k, prefix) ==
    CASE prefix = "bleu" -> k \in BleuKeys \cup {"bleu"}
      [] prefix = "rouge" -> k \in Range(RougeKeys) \cup {"rouge", "rouge-w"}
      [] prefix = "intra-distinct" -> k \in IntraKeys \cup {"intra-distinct"}
      [] prefix = "inter-distinct" -> k \in InterKeys \cup {"inter-distinct"}

AnyCrsPrefix(k) == \E j \in 1..Len(crs_metrics) : StartsWith(k, crs_metrics[j])

\* the keys update() never takes from an observation's metrics dict
ReservedUserKeys == {"correct", "f1", "hits@k", "bleu"}

\* --------------------------------------------------------------- the state
Workers == {"w1", "w2"}
Free == "free"

VARIABLES
    metrics,        \* self.metrics: key -> number, or Counter for inter-distinct
    metrics_list,   \* self.metrics_list
    flags,          \* self.flags
    shared,         \* type(self.metrics) is SharedTable  (numthreads > 1)
    lock,           \* owner of the SharedTable lock, or Free
    nltkbleu,       \* nltk could be imported
    rouge,          \* py-rouge could be imported
    pc,             \* per worker: position in the running call, or "idle"
    call,           \* per worker: the arguments of the running call
    local,          \* per worker: local variables of the running call
    result,         \* per worker: outcome of the last call
    log,            \* calls in the order they started
    reporters,      \* aggregate_metrics: its argument
    agg             \* aggregate_metrics: its result, or None

vars ==
    <<metrics, metrics_list, flags, shared, lock, nltkbleu, rouge, pc, call,
      local, result, log, reporters, agg>>

EmptyCounter == EmptyBag

\* Metrics.__init__: self.metrics_list
InitMetricsList(bleu, rge) ==
    <<"mean_rank", "loss", "correct", "f1", "ppl">>
    \o (IF bleu THEN [i \in NgramOrders |-> BleuKey(i)] ELSE << >>)
    \o (IF rge THEN RougeKeys ELSE << >>)
    \o <<IntraKey(1), InterKey(1), IntraKey(2), InterKey(2),
         IntraKey(3), InterKey(3), IntraKey(4), InterKey(4)>>

\* Metrics.__init__: self.metrics
InitMetrics(bleu, rge) ==
    LET ml == InitMetricsList(bleu, rge)
        sums == [k \in Range(ml) |->
                    IF StartsWith(k, "inter-distinct") THEN EmptyCounter ELSE 0]
        cnts == [c \in {CntKey(k) : k \in {x \in Range(ml) : ~AnyCrsPrefix(x)}}
                    |-> 0]
        crs == [c \in {CntKey(crs_metrics[j]) :
                        j \in {i \in 1..Len(crs_metrics) :
                                 crs_metrics[i] # "inter-distinct"}} |-> 0]
        hits == [h \in {HitsKey(eval_pr[j]) : j \in 1..Len(eval_pr)} |-> 0]
    IN ("cnt" :> 0) @@ sums @@ cnts @@ crs @@ hits @@ ("hits@_cnt" :> 0)

InitFlags == [has_text_cands |-> FALSE, print_prediction_metrics |-> FALSE]

NoCall == [op |-> "none"]
NoLocal == [tmp |-> 0]
NoResult == [kind |-> "none"]

\* _lock as it would be if it always answered no_lock()
_lock_always_no_lock == "no_lock"

\* Metrics._lock: the table's lock when it is a SharedTable, else no_lock()
_lock == IF shared THEN "get_lock" ELSE "no_lock"

\* line 323 as it would be if the type test never succeeded
IsSharedTable_never == FALSE

\* line 323: type(self.metrics) is SharedTable
IsSharedTable == shared

\* entering "with self._lock():".  get_lock() of a SharedTable
\* (parlai.core.thread_utils) is one mutex for the table: entering blocks
\* until it is free; no_lock() (parlai.core.utils) does nothing.
LockEnter(w) ==
    IF _lock = "get_lock" THEN lock = Free /\ lock' = w ELSE UNCHANGED lock

\* leaving "with self._lock():", normally or by an exception
LockExit(w) ==
    IF _lock = "get_lock" THEN lock' = Free ELSE UNCHANGED lock

\* ----------------------------------------------------------------- calls
\* Only one thread uses an accumulator that is not shared.
Active == IF shared THEN Workers ELSE {"w1"}

\* the call of worker w ends with outcome res
Finish(w, res) ==
    /\ pc' = [pc EXCEPT ![w] = "idle"]
    /\ result' = [result EXCEPT ![w] = [of |-> call[w]] @@ res]
    /\ local' = [local EXCEPT ![w] = NoLocal]
    /\ call' = [call EXCEPT ![w] = NoCall]

Returned(o, v) == [kind |-> "return", op |-> o, val |-> v]
Raised(o, exc) == [kind |-> "raise", op |-> o, val |-> exc]

Goto(w, label, loc) ==
    /\ pc' = [pc EXCEPT ![w] = label]
    /\ local' = [local EXCEPT ![w] = loc]
    /\ UNCHANGED <<result, call>>

Table == <<metrics, metrics_list, flags>>
Env == <<shared, nltkbleu, rouge, reporters, agg>>

\* ---------------------------------------------------------- Metrics.update
\* "self.metrics[k] += v" under the lock is a read followed by a write.  For
\* cnt, correct and correct_cnt the two are separate steps; for the keys of
\* the later sections they are one step.

\* line 277 and the read of line 278
U277(w) ==
    /\ pc[w] = "u277"
    /\ LockEnter(w)
    /\ Goto(w, "u278", [tmp |-> metrics["cnt"]])
    /\ UNCHANGED <<Table, Env, log>>

\* the write of line 278, and lines 281-285
U278(w) ==
    /\ pc[w] = "u278"
    /\ metrics' = [metrics EXCEPT !["cnt"] = local[w].tmp + One]
    /\ LockExit(w)
    /\ LET prediction == call[w].obs.text
           correct == IF prediction # None
                         /\ _exact_match(prediction, call[w].labels)
                      THEN One ELSE 0
       IN Goto(w, IF prediction # None THEN "u286" ELSE "u312",
               [tmp |-> 0, correct |-> correct])
    /\ UNCHANGED <<metrics_list, flags, Env, log>>

\* lines 286-287 and the read of line 288
U286(w) ==
    /\ pc[w] = "u286"
    /\ LockEnter(w)
    /\ flags' = [flags EXCEPT !.print_prediction_metrics = TRUE]
    /\ Goto(w, "u288", [local[w] EXCEPT !.tmp = metrics["correct"]])
    /\ UNCHANGED <<metrics, metrics_list, Env, log>>

\* the write of line 288 and the read of line 289
U288(w) ==
    /\ pc[w] = "u288"
    /\ metrics' = [metrics EXCEPT !["correct"] = local[w].tmp + local[w].correct]
    /\ Goto(w, "u289", [local[w] EXCEPT !.tmp = metrics["correct_cnt"]])
    /\ UNCHANGED <<metrics_list, flags, lock, Env, log>>

\* the write of line 289, and line 292
U289(w) ==
    /\ pc[w] = "u289"
    /\ metrics' = [metrics EXCEPT !["correct_cnt"] = local[w].tmp + One]
    /\ LockExit(w)
    /\ IF _f1_score_raises(call[w].obs.text, call[w].labels)
       THEN Finish(w, Raised("update", ValueError))
       ELSE Goto(w, "u293",
                 [tmp |-> 0, correct |-> local[w].correct,
                  f1 |-> _f1_score(call[w].obs.text, call[w].labels)])
    /\ UNCHANGED <<metrics_list, flags, Env, log>>

\* lines 293-295
U293(w) ==
    /\ pc[w] = "u293"
    /\ LockEnter(w)
    /\ metrics' = [metrics EXCEPT !["f1"] = @ + local[w].f1,
                                  !["f1_cnt"] = @ + One]
    /\ Goto(w, "u296", local[w])
    /\ UNCHANGED <<metrics_list, flags, Env, log>>

\* lines 296-299; _bleu iterates over answers, a TypeError when it is None
U296(w) ==
    /\ pc[w] = "u296"
    /\ IF nltkbleu /\ call[w].labels = None
       THEN /\ LockExit(w)
            /\ Finish(w, Raised("update", TypeError))
            /\ UNCHANGED metrics
       ELSE /\ metrics' =
                IF nltkbleu
                THEN [k \in DOMAIN metrics |->
                        IF k \in BleuKeys THEN metrics[k] + call[w].ext.bleu
                        ELSE IF k = "bleu_cnt" THEN metrics[k] + One
                        ELSE metrics[k]]
                ELSE metrics
            /\ Goto(w, "u300", local[w])
            /\ UNCHANGED lock
    /\ UNCHANGED <<metrics_list, flags, Env, log>>

\* lines 300-305; _rouge iterates over answers inside its try (a TypeError
\* when it is None is not caught), and answers a LookupError of the scorer
\* with a list of None, which line 302 then adds to a float: TypeError.
U300(w) ==
    /\ pc[w] = "u300"
    /\ IF rouge /\ (call[w].labels = None \/ call[w].ext.lookup_error)
       THEN /\ LockExit(w)
            /\ Finish(w, Raised("update", TypeError))
            /\ UNCHANGED metrics
       ELSE /\ metrics' =
                IF rouge
                THEN [k \in DOMAIN metrics |->
                        IF k \in Range(RougeKeys)
                            THEN metrics[k] + call[w].ext.rouge
                        ELSE IF k = "rouge_cnt" THEN metrics[k] + One
                        ELSE metrics[k]]
                ELSE metrics
            /\ Goto(w, "u306", local[w])
            /\ UNCHANGED lock
    /\ UNCHANGED <<metrics_list, flags, Env, log>>

\* lines 306-309
U306(w) ==
    /\ pc[w] = "u306"
    /\ LET prediction == Val(call[w].obs.text)
       IN metrics' =
            [k \in DOMAIN metrics |->
                IF \E i \in NgramOrders : k = IntraKey(i)
                THEN LET i == CHOOSE j \in NgramOrders : k = IntraKey(j)
                     IN metrics[k] + _intra_distinct(prediction, i)
                ELSE IF \E i \in NgramOrders : k = InterKey(i)
                THEN LET i == CHOOSE j \in NgramOrders : k = InterKey(j)
                     IN metrics[k] (+) _inter_distinct(prediction, i)
                ELSE IF k = "intra-distinct_cnt" THEN metrics[k] + One
                ELSE metrics[k]]
    /\ LockExit(w)
    /\ Goto(w, "u312", local[w])
    /\ UNCHANGED <<metrics_list, flags, Env, log>>

\* -------------------------------------------- Metrics.update_ranking_metrics
\* lines 257-265 as they would be if line 264 tested cnt >= k
RankCnts_from_rank(text_cands, labels) ==
    LET label_set == {normalize_answer(labels[i]) : i \in 1..Len(labels)}
    IN [k \in Range(eval_pr) |->
            Cardinality({c \in 1..Len(text_cands) :
                            /\ normalize_answer(text_cands[c]) \in label_set
                            /\ c >= k})]

\* lines 257-265: cnts[k] = number of candidates at a rank <= k whose
\* normalized text is in the label set
RankCnts(text_cands, labels) ==
    LET label_set == {normalize_answer(labels[i]) : i \in 1..Len(labels)}
    IN [k \in Range(eval_pr) |->
            Cardinality({c \in 1..Len(text_cands) :
                            /\ normalize_answer(text_cands[c]) \in label_set
                            /\ c <= k})]

\* line 312 and lines 250-268; iterating over labels = None is a TypeError
U312(w) ==
    /\ pc[w] = "u312"
    /\ LET text_cands == call[w].obs.text_candidates
       IN IF text_cands = None THEN Goto(w, "u315", local[w])
          ELSE IF call[w].labels = None
               THEN Finish(w, Raised("update", TypeError))
               ELSE Goto(w, "u269",
                         [tmp |-> 0, correct |-> local[w].correct,
                          cnts |-> RankCnts(Val(text_cands),
                                            Val(call[w].labels))])
    /\ UNCHANGED <<Table, lock, Env, log>>

\* lines 269-270
U269(w) ==
    /\ pc[w] = "u269"
    /\ LockEnter(w)
    /\ flags' = [flags EXCEPT !.has_text_cands = TRUE]
    /\ Goto(w, "u271", local[w])
    /\ UNCHANGED <<metrics, metrics_list, Env, log>>

\* lines 271-274 as they would be if the section did not release the lock
U271_keeps_lock(w) ==
    /\ pc[w] = "u271"
    /\ metrics' =
        [x \in DOMAIN metrics |->
            IF \E k \in Range(eval_pr) : x = HitsKey(k) /\ local[w].cnts[k] > 0
                THEN metrics[x] + One
            ELSE IF x = "hits@_cnt" THEN metrics[x] + One
            ELSE metrics[x]]
    /\ Goto(w, "u315", [tmp |-> 0, correct |-> local[w].correct])
    /\ UNCHANGED <<metrics_list, flags, lock, Env, log>>

\* lines 271-274
U271(w) ==
    /\ pc[w] = "u271"
    /\ metrics' =
        [x \in DOMAIN metrics |->
            IF \E k \in Range(eval_pr) : x = HitsKey(k) /\ local[w].cnts[k] > 0
                THEN metrics[x] + One
            ELSE IF x = "hits@_cnt" THEN metrics[x] + One
            ELSE metrics[x]]
    /\ LockExit(w)
    /\ Goto(w, "u315", [tmp |-> 0, correct |-> local[w].correct])
    /\ UNCHANGED <<metrics_list, flags, Env, log>>

\* ----------------------------------------- Metrics.update: user metrics
\* line 315, and lines 338-340 when the observation has no metrics dict.
\* The dict is the sequence of its items <<k, v>>.
U315(w) ==
    /\ pc[w] = "u315"
    /\ IF call[w].obs.metrics = None
       THEN Finish(w, Returned("update", [correct |-> local[w].correct]))
       ELSE Goto(w, "u316", [tmp |-> 0, correct |-> local[w].correct,
                             todo |-> Val(call[w].obs.metrics)])
    /\ UNCHANGED <<Table, lock, Env, log>>

\* lines 316-333 for the next item of the dict (for a registered key: lines
\* 319-320), and lines 338-340 after the last one
U316(w) ==
    /\ pc[w] = "u316"
    /\ IF local[w].todo = << >>
       THEN /\ Finish(w, Returned("update", [correct |-> local[w].correct]))
            /\ UNCHANGED <<Table, lock>>
       ELSE LET k == Head(local[w].todo)[1]
                v == Head(local[w].todo)[2]
                rest == [local[w] EXCEPT !.todo = Tail(@)]
            IN IF k \in ReservedUserKeys
               THEN /\ Goto(w, "u316", rest)
                    /\ UNCHANGED <<Table, lock>>
               ELSE IF k \in Range(metrics_list)
               THEN /\ LockEnter(w)
                    /\ metrics' = [metrics EXCEPT ![k] = @ + v]
                    /\ Goto(w, "u321", local[w])
                    /\ UNCHANGED <<metrics_list, flags>>
               ELSE IF IsSharedTable
               THEN \* can't share custom metrics during hogwild
                    /\ Goto(w, "u316", rest)
                    /\ UNCHANGED <<Table, lock>>
               ELSE IF k \notin DOMAIN metrics
               THEN /\ metrics' =
                        [x \in DOMAIN metrics \cup {k, CntKey(k)} |->
                            IF x = CntKey(k) THEN One
                            ELSE IF x = k THEN v
                            ELSE metrics[x]]
                    /\ metrics_list' = Append(metrics_list, k)
                    /\ Goto(w, "u316", rest)
                    /\ UNCHANGED <<flags, lock>>
               ELSE /\ metrics' = [metrics EXCEPT ![k] = @ + v]
                    /\ Goto(w, "u316", rest)
                    /\ UNCHANGED <<metrics_list, flags, lock>>
    /\ UNCHANGED <<Env, log>>

\* line 321: the counter of a registered key; a KeyError when the table has
\* no key k + '_cnt'
U321(w) ==
    /\ pc[w] = "u321"
    /\ LET k == Head(local[w].todo)[1]
       IN IF CntKey(k) \in DOMAIN metrics
          THEN /\ metrics' = [metrics EXCEPT ![CntKey(k)] = @ + One]
               /\ Goto(w, "u316", [local[w] EXCEPT !.todo = Tail(@)])
          ELSE /\ Finish(w, Raised("update", KeyError))
               /\ UNCHANGED metrics
    /\ LockExit(w)
    /\ UNCHANGED <<metrics_list, flags, Env, log>>

\* ---------------------------------------------------------- Metrics.report
\* report() takes no lock; the reads of a sum and of its counter are separate
\* steps for accuracy and f1.

\* lines 344-347
P345(w) ==
    /\ pc[w] = "p345"
    /\ LET total == metrics["cnt"]
           m == [exs |-> total]
       IN IF total > 0 THEN Goto(w, "p348", [tmp |-> 0, m |-> m])
          ELSE Finish(w, Returned("report", m))
    /\ UNCHANGED <<Table, lock, Env, log>>

\* line 348 and the read of self.metrics['correct'] in line 350
P348(w) ==
    /\ pc[w] = "p348"
    /\ IF flags.print_prediction_metrics
       THEN Goto(w, "p350", [local[w] EXCEPT !.tmp = metrics["correct"]])
       ELSE Goto(w, "p357", local[w])
    /\ UNCHANGED <<Table, lock, Env, log>>

\* lines 349-352: the read of correct_cnt and the division
P350(w) ==
    /\ pc[w] = "p350"
    /\ Goto(w, "p353",
            [local[w] EXCEPT !.m = @ @@ ("accuracy" :>
                round_sigfigs(local[w].tmp, Max(One, metrics["correct_cnt"]), 4))])
    /\ UNCHANGED <<Table, lock, Env, log>>

\* the read of self.metrics['f1'] in line 354
P353(w) ==
    /\ pc[w] = "p353"
    /\ Goto(w, "p354", [local[w] EXCEPT !.tmp = metrics["f1"]])
    /\ UNCHANGED <<Table, lock, Env, log>>

\* lines 353-356: the read of f1_cnt and the division
P354(w) ==
    /\ pc[w] = "p354"
    /\ Goto(w, "p357",
            [local[w] EXCEPT !.m = @ @@ ("f1" :>
                round_sigfigs(local[w].tmp, Max(One, metrics["f1_cnt"]), 4))])
    /\ UNCHANGED <<Table, lock, Env, log>>

\* lines 357-363
P357(w) ==
    /\ pc[w] = "p357"
    /\ LET hits == [x \in {HitsKey(k) : k \in Range(eval_pr)} |->
                        round_sigfigs(metrics[x],
                                      Max(One, metrics["hits@_cnt"]), 3)]
       IN Goto(w, "p364",
               [local[w] EXCEPT !.m = IF flags.has_text_cands
                                         THEN @ @@ hits ELSE @])
    /\ UNCHANGED <<Table, lock, Env, log>>

\* the keys of metrics_list that lines 365-369 report
ScalarReported(k) ==
    /\ ~StartsWith(k, "inter-distinct")
    /\ metrics[CntKey(RsplitHead(k))] > 0
    /\ k # "correct"
    /\ k # "f1"

\* lines 364-375; line 365 looks up k.rsplit('-', 1)[0] + '_cnt' for every
\* key that is not an inter-distinct one: a KeyError when it is missing
P364(w) ==
    /\ pc[w] = "p364"
    /\ LET keys == Range(metrics_list)
           missing == {k \in keys : /\ ~StartsWith(k, "inter-distinct")
                                    /\ CntKey(RsplitHead(k)) \notin DOMAIN metrics}
           scalars == {k \in keys : ScalarReported(k)}
           inters == {k \in keys : /\ StartsWith(k, "inter-distinct")
                                   /\ DOMAIN metrics[k] # {}}
           vals == [k \in scalars \cup inters |->
                      IF k \in scalars
                      THEN round_sigfigs(metrics[k],
                              Max(One, metrics[CntKey(RsplitHead(k))]), 4)
                      ELSE round_sigfigs(Cardinality(DOMAIN metrics[k]),
                                         BagCardinality(metrics[k]), 4)]
       IN IF missing # {}
          THEN Finish(w, Raised("report", KeyError))
          ELSE Finish(w, Returned("report", vals @@ local[w].m))
    /\ UNCHANGED <<Table, lock, Env, log>>

\* ----------------------------------------------------------- Metrics.clear
\* lines 378-379
C378(w) ==
    /\ pc[w] = "c378"
    /\ LockEnter(w)
    /\ metrics' = [metrics EXCEPT !["cnt"] = 0]
    /\ Goto(w, "c380", local[w])
    /\ UNCHANGED <<metrics_list, flags, Env, log>>

\* lines 380-390: the table after the loop over metrics_list
ClearList(m, ml) ==
    LET keys == Range(ml)
        cnts == {CntKey(k) : k \in {x \in keys : ~AnyCrsPrefix(x)}}
    IN [x \in DOMAIN m \cup cnts |->
            IF x \in cnts THEN 0
            ELSE IF x \in keys
                 THEN IF StartsWith(x, "inter-distinct")
                      THEN EmptyCounter ELSE 0
            ELSE m[x]]

\* lines 391-396: the table after the counters of crs_metrics and the hits
ClearCrs(m) ==
    LET crs == {CntKey(crs_metrics[j]) :
                  j \in {i \in 1..Len(crs_metrics) :
                           crs_metrics[i] # "inter-distinct"}}
        hits == {HitsKey(k) : k \in Range(eval_pr)} \cup {"hits@_cnt"}
    IN [x \in DOMAIN m \cup crs \cup hits |->
            IF x \in crs \cup hits THEN 0 ELSE m[x]]

\* lines 380-390
C380(w) ==
    /\ pc[w] = "c380"
    /\ metrics' = ClearList(metrics, metrics_list)
    /\ Goto(w, "c391", local[w])
    /\ UNCHANGED <<metrics_list, flags, lock, Env, log>>

\* lines 391-396
C391(w) ==
    /\ pc[w] = "c391"
    /\ metrics' = ClearCrs(metrics)
    /\ LockExit(w)
    /\ Finish(w, Returned("clear", None))
    /\ UNCHANGED <<metrics_list, flags, Env, log>>

\* ------------------------------------------------------- aggregate_metrics
\* a + b for decimals
DecAdd(a, b) ==
    LET e == Min(a.e, b.e)
    IN Strip([m |-> a.m * Pow10(a.e - e) + b.m * Pow10(b.e - e), e |-> e])

\* round_sigfigs(d / n, sigfigs) for a decimal d and an int n > 0
DecDivRound(d, n, sigfigs) ==
    IF d.e >= 0 THEN round_sigfigs(d.m * Pow10(d.e), n, sigfigs)
    ELSE round_sigfigs(d.m, n * Pow10(0 - d.e), sigfigs)

\* line 163-165: the keys of sums
SumKeys(bleu) == {"accuracy", "f1", "loss", "ppl"} \cup (IF bleu THEN {"bleu"} ELSE {})

RECURSIVE FreshTid(_, _)

\* lines 171-173 as they would be without the while loop
FreshTid_as_given(tid, tasks) == tid

\* lines 171-173: a task id is a name followed by `us` underscores
FreshTid(tid, tasks) ==
    IF tid \in DOMAIN tasks
    THEN FreshTid([name |-> tid.name, us |-> tid.us + 1], tasks)
    ELSE tid

\* lines 168-182: the loop, from reporter i on
RECURSIVE AggLoop(_, _, _)
AggLoop(reps, i, st) ==
    IF i > Len(reps) THEN st
    ELSE LET tid == FreshTid(reps[i].id, st.tasks)
             mt == reps[i].report
             found == {k \in DOMAIN st.sums : k \in DOMAIN mt}
         IN AggLoop(reps, i + 1,
                [tasks |-> (tid :> mt) @@ st.tasks,
                 total |-> st.total + mt["exs"],
                 sums |-> [k \in DOMAIN st.sums |->
                            IF k \in found THEN DecAdd(st.sums[k], mt[k])
                            ELSE st.sums[k]],
                 num_tasks |-> IF found # {} THEN st.num_tasks + 1
                               ELSE st.num_tasks])

\* aggregate_metrics(reporters), lines 159-188
aggregate_metrics(reps, bleu) ==
    LET st == AggLoop(reps, 1,
                [tasks |-> << >>, total |-> 0,
                 sums |-> [k \in SumKeys(bleu) |-> Dec0], num_tasks |-> 0])
        means == IF st.num_tasks > 0
                 THEN [k \in DOMAIN st.sums |->
                        DecDivRound(st.sums[k], st.num_tasks, 4)]
                 ELSE << >>
    IN means @@ ("tasks" :> st.tasks) @@ ("exs" :> st.total)
             @@ ("accuracy" :> Dec0)

Aggregate ==
    /\ agg = None
    /\ agg' = Some(aggregate_metrics(reporters, nltkbleu))
    /\ UNCHANGED <<metrics, metrics_list, flags, shared, lock, nltkbleu, rouge,
                   pc, call, local, result, log, reporters>>

\* ------------------------------------------------------------------ inputs
MaxCalls == 4          \* calls made on an accumulator that is not shared
MaxSharedCalls == 3    \* calls made on a shared accumulator, by all workers
MaxReporters == 2      \* length of the argument of aggregate_metrics
MaxFairCalls == 2      \* calls made by the fairly scheduled workers

Tx == <<"x">>
Ty == <<"y">>
TheX == <<"The", "X", "!">>
Txy == <<"x", "y">>

Obs(text, cands, mets) ==
    [text |-> text, text_candidates |-> cands, metrics |-> mets]

\* what the external scorers (nltk sentence_bleu, py-rouge get_scores) answer
ExtOk == [bleu |-> One \div 2, rouge |-> One \div 2, lookup_error |-> FALSE]
ExtLookupError == [bleu |-> One \div 2, rouge |-> 0, lookup_error |-> TRUE]

Example(o, l, x) == [obs |-> o, labels |-> l, ext |-> x]

ExamplesLocal ==
    { Example(Obs(Some(TheX), None, None), Some(<<Tx>>), ExtOk),
      Example(Obs(Some(Txy), Some(<<Ty, Tx>>), None), Some(<<Tx>>), ExtOk),
      Example(Obs(None, None, Some(<<<<"reward", One>>, <<"loss", One>>>>)),
              Some(<<Tx>>), ExtOk),
      Example(Obs(None, None, Some(<<<<"cnt", 2 * One>>>>)), Some(<<Tx>>), ExtOk),
      Example(Obs(None, None, Some(<<<<"tok-acc", One>>, <<"f1", One>>>>)),
              Some(<<Tx>>), ExtOk),
      Example(Obs(None, None, Some(<<<<"hits@1", One>>>>)), Some(<<Tx>>), ExtOk),
      Example(Obs(None, None, Some(<<<<"rouge", One>>>>)), Some(<<Tx>>), ExtOk),
      Example(Obs(None, None, Some(<<<<"rouge-w", One>>>>)), Some(<<Tx>>), ExtOk),
      Example(Obs(Some(Tx), None, None), None, ExtOk),
      Example(Obs(Some(Tx), None, None), Some(<< >>), ExtOk),
      Example(Obs(Some(Tx), None, None), Some(<<Tx>>), ExtLookupError) }

ExamplesShared ==
    { Example(Obs(Some(TheX), None, None), Some(<<Tx>>), ExtOk),
      Example(Obs(Some(Txy), Some(<<Ty, Tx>>), None), Some(<<Tx>>), ExtOk),
      Example(Obs(Some(Ty), Some(<<Ty, Tx>>),
                  Some(<<<<"reward", One>>, <<"loss", One>>>>)),
              Some(<<Tx>>), ExtOk),
      Example(Obs(None, None, Some(<<<<"cnt", 2 * One>>, <<"f1", One>>>>)),
              Some(<<Tx>>), ExtOk) }

Examples == IF shared THEN ExamplesShared ELSE ExamplesLocal

LibConfigs == BOOLEAN \X BOOLEAN

CallLimit == IF shared THEN MaxSharedCalls ELSE MaxCalls

\* log: counters of the calls started so far
NoLog ==
    [calls |-> 0, updates |-> 0, texts |-> 0, matches |-> 0, clears |-> 0,
     dicts |-> 0]

CanCall(w) == pc[w] = "idle" /\ w \in Active /\ log.calls < CallLimit

UpdateCall(w) ==
    /\ CanCall(w)
    /\ \E ex \in Examples :
        /\ call' = [call EXCEPT ![w] = [op |-> "update"] @@ ex]
        /\ log' = [log EXCEPT
                    !.calls = @ + 1,
                    !.updates = @ + 1,
                    !.texts = @ + (IF ex.obs.text # None THEN 1 ELSE 0),
                    !.dicts = @ + (IF ex.obs.metrics # None THEN 1 ELSE 0),
                    !.matches = @ + (IF _exact_match(ex.obs.text, ex.labels)
                                     THEN 1 ELSE 0)]
    /\ pc' = [pc EXCEPT ![w] = "u277"]
    /\ result' = [result EXCEPT ![w] = NoResult]
    /\ UNCHANGED <<Table, lock, Env, local>>

ReportCall(w) ==
    /\ CanCall(w)
    /\ call' = [call EXCEPT ![w] = [op |-> "report"]]
    /\ log' = [log EXCEPT !.calls = @ + 1]
    /\ pc' = [pc EXCEPT ![w] = "p345"]
    /\ result' = [result EXCEPT ![w] = NoResult]
    /\ UNCHANGED <<Table, lock, Env, local>>

ClearCall(w) ==
    /\ CanCall(w)
    /\ call' = [call EXCEPT ![w] = [op |-> "clear"]]
    /\ log' = [log EXCEPT !.calls = @ + 1, !.clears = @ + 1, !.updates = 0,
                          !.texts = 0, !.matches = 0]
    /\ pc' = [pc EXCEPT ![w] = "c378"]
    /\ result' = [result EXCEPT ![w] = NoResult]
    /\ UNCHANGED <<Table, lock, Env, local>>

\* ---------------------------------------------------------- specifications
\* the state after Metrics.__init__(opt)
Constructed(numthreads_gt_1, bleu, rge) ==
    /\ metrics = InitMetrics(bleu, rge)
    /\ metrics_list = InitMetricsList(bleu, rge)
    /\ flags = InitFlags
    /\ shared = numthreads_gt_1
    /\ lock = Free
    /\ nltkbleu = bleu
    /\ rouge = rge
    /\ pc = [w \in Workers |-> "idle"]
    /\ call = [w \in Workers |-> NoCall]
    /\ local = [w \in Workers |-> NoLocal]
    /\ result = [w \in Workers |-> NoResult]
    /\ log = NoLog

InitLocal ==
    /\ \E cfg \in LibConfigs : Constructed(FALSE, cfg[1], cfg[2])
    /\ reporters = << >>
    /\ agg = None

InitShared ==
    /\ Constructed(TRUE, TRUE, TRUE)
    /\ reporters = << >>
    /\ agg = None

Next ==
    \E w \in Workers :
        \/ UpdateCall(w) \/ ReportCall(w) \/ ClearCall(w)
        \/ U277(w) \/ U278(w) \/ U286(w) \/ U288(w) \/ U289(w)
        \/ U293(w) \/ U296(w) \/ U300(w) \/ U306(w)
        \/ U312(w) \/ U269(w) \/ U271(w)
        \/ U315(w) \/ U316(w) \/ U321(w)
        \/ P345(w) \/ P348(w) \/ P350(w) \/ P353(w) \/ P354(w) \/ P357(w)
        \/ P364(w)
        \/ C378(w) \/ C380(w) \/ C391(w)

SpecLocal == InitLocal /\ [][Next]_vars

SpecShared == InitShared /\ [][Next]_vars

\* an accumulator of either kind
SpecAny == (InitLocal \/ InitShared) /\ [][Next]_vars

\* a step of the update() or clear() that worker w is running
LockStep(w) ==
    \/ U277(w) \/ U278(w) \/ U286(w) \/ U288(w) \/ U289(w)
    \/ U293(w) \/ U296(w) \/ U300(w) \/ U306(w)
    \/ U312(w) \/ U269(w) \/ U271(w)
    \/ U315(w) \/ U316(w) \/ U321(w)
    \/ C378(w) \/ C380(w) \/ C391(w)

\* the observation that takes update() through each of its locked sections:
\* a prediction, candidates and a metrics dict with a key of metrics_list
FairExample ==
    Example(Obs(Some(Ty), Some(<<Ty, Tx>>),
                Some(<<<<"reward", One>>, <<"loss", One>>>>)),
            Some(<<Tx>>), ExtOk)

\* the workers of a shared accumulator call update() and clear(), at most
\* MaxFairCalls times in all
NextFair ==
    \E w \in Workers :
        \/ UpdateCall(w) /\ log.calls < MaxFairCalls
                         /\ call'[w] = [op |-> "update"] @@ FairExample
        \/ ClearCall(w) /\ log.calls < MaxFairCalls
        \/ LockStep(w)

\* every worker is scheduled weakly fairly: a worker whose next step stays
\* possible takes it; nobody has to call
SpecSharedFair ==
    InitShared /\ [][NextFair]_vars /\ \A w \in Workers : WF_vars(LockStep(w))

\* reports handed to aggregate_metrics: exs and some of the headline keys
D(m, e) == [m |-> m, e |-> e]

ReportSet ==
    { ("exs" :> 10 * One) @@ ("accuracy" :> D(8, -1)),
      ("exs" :> 90 * One) @@ ("accuracy" :> D(6, -1)),
      ("exs" :> 5 * One) @@ ("f1" :> D(5, -1)),
      ("exs" :> One) @@ ("accuracy" :> D(1, 0)) @@ ("f1" :> D(25, -2)),
      ("exs" :> 2 * One) @@ ("bleu" :> D(1, -1)) @@ ("loss" :> D(2, 0)),
      ("exs" :> 0) }

TaskIds ==
    {[name |-> "t1", us |-> 0], [name |-> "t2", us |-> 0],
     [name |-> "t1", us |-> 1]}

ReporterSet == [id : TaskIds, report : ReportSet]

RECURSIVE SeqsUpTo(_, _)
SeqsUpTo(S, n) ==
    IF n = 0 THEN {<< >>}
    ELSE LET shorter == SeqsUpTo(S, n - 1)
         IN shorter \cup {Append(q, x) : q \in shorter, x \in S}

InitAgg ==
    /\ \E bleu \in BOOLEAN : Constructed(FALSE, bleu, FALSE)
    /\ reporters \in SeqsUpTo(ReporterSet, MaxReporters)
    /\ agg = None

NextAgg == Aggregate

SpecAgg == InitAgg /\ [][NextAgg]_vars

\* ================================================================ properties
Quiescent == \A w \in Workers : pc[w] = "idle"

ReportPcs == {"p345", "p348", "p350", "p353", "p354", "p357", "p364"}

\* between report()'s read of cnt and its last read of the table
ReportMidPcs == ReportPcs \ {"p345"}

\* worker w takes the step
StepOf(w) == pc'[w] # pc[w] \/ local'[w] # local[w]

FinishedUpdate(w) == result[w].kind # "none" /\ result[w].op = "update"
FinishedReport(w) == result[w].kind # "none" /\ result[w].op = "report"

\* C1: on a shared accumulator, once K update() calls that each carry a
\* prediction have all completed (no clear() among the calls), cnt = K,
\* correct_cnt = K and correct = the number of calls whose prediction matched,
\* so the accuracy report() computes is (number of matches) / K.
C1_NoLostUpdate ==
    (shared /\ Quiescent /\ log.clears = 0 /\ log.updates >= 1
        /\ log.texts = log.updates)
    => /\ metrics["cnt"] = log.updates * One
       /\ metrics["correct_cnt"] = log.updates * One
       /\ metrics["correct"] = log.matches * One
       /\ round_sigfigs(metrics["correct"], Max(One, metrics["correct_cnt"]), 4)
            = round_sigfigs(log.matches, log.updates, 4)

\* two workers have each completed one update() with a prediction, one of
\* them matching
C1_Witness ==
    /\ shared /\ Quiescent /\ log.clears = 0
    /\ log.updates = 2 /\ log.texts = 2 /\ log.matches = 1
    /\ \A w \in Workers : FinishedUpdate(w)
    /\ metrics["cnt"] = 2 * One
    /\ metrics["correct"] = One

\* C2: while a report() is reading the shared table, the text-metric folds of
\* an example are visible all or none: correct_cnt, f1_cnt and
\* intra-distinct_cnt are equal.
C2_NoTornUpdate ==
    (shared /\ \E w \in Workers : pc[w] \in ReportPcs)
    => /\ metrics["correct_cnt"] = metrics["f1_cnt"]
       /\ metrics["f1_cnt"] = metrics["intra-distinct_cnt"]

\* C3: report() reads one table state: between its read of cnt and its last
\* read, no step of another worker changes the table or the flags.
C3_ReportSnapshot ==
    [][\A w \in Workers :
        (pc[w] \in ReportMidPcs /\ ~StepOf(w))
        => (metrics' = metrics /\ flags' = flags)]_vars

\* C4: whatever the observations contain, when no call is running cnt is the
\* number of update() calls since the last clear().
C4_ExsCountsUpdates ==
    (~shared /\ Quiescent) => metrics["cnt"] = log.updates * One

\* C5: a report() contains accuracy, f1 or hits@K only if the counter of that
\* metric is positive.
C5_NoZeroObservationMetric ==
    \A w \in Workers :
        (~shared /\ FinishedReport(w) /\ result[w].kind = "return")
        => LET m == result[w].val
           IN /\ "accuracy" \in DOMAIN m => metrics["correct_cnt"] > 0
              /\ "f1" \in DOMAIN m => metrics["f1_cnt"] > 0
              /\ \A k \in Range(eval_pr) :
                    HitsKey(k) \in DOMAIN m => metrics["hits@_cnt"] > 0

RECURSIVE DecSum(_, _)
\* the sum of report[k] over the reporters with index in I
DecSum(I, k) ==
    IF I = {} THEN Dec0
    ELSE LET i == CHOOSE j \in I : TRUE
         IN DecAdd(reporters[i].report[k], DecSum(I \ {i}, k))

\* C6: each headline key of the aggregate is the sum of that key over the
\* task reports divided by the number of tasks that report that key, and exs
\* is the sum of exs.
C6_PerKeyMean ==
    agg # None
    => LET m == Val(agg)
           all == 1..Len(reporters)
       IN /\ m["exs"] = SumSet(all, [i \in all |-> reporters[i].report["exs"]])
          /\ \A k \in SumKeys(nltkbleu) :
                LET having == {i \in all : k \in DOMAIN reporters[i].report}
                IN having # {}
                   => m[k] = DecDivRound(DecSum(having, k), Cardinality(having), 4)

MissingLabels(c) ==
    /\ c.op = "update"
    /\ c.obs.text # None
    /\ (c.labels = None \/ c.labels = Some(<< >>))

\* C7: no step of an update() that has a prediction but no references (None
\* or an empty list) raises an exception or changes correct, correct_cnt, f1
\* or f1_cnt.
C7_MissingReferences ==
    [][\A w \in Workers :
        (MissingLabels(call[w]) /\ StepOf(w))
        => /\ result'[w].kind # "raise"
           /\ \A k \in {"correct", "correct_cnt", "f1", "f1_cnt"} :
                metrics'[k] = metrics[k]]_vars

\* C8: an update() on which the ROUGE scorer hits a lookup failure returns
\* normally and leaves the mutex free.
C8_LookupFailureAbsorbed ==
    \A w \in Workers :
        (/\ FinishedUpdate(w)
         /\ rouge
         /\ result[w].of.obs.text # None
         /\ result[w].of.labels # None
         /\ result[w].of.labels # Some(<< >>)
         /\ result[w].of.ext.lookup_error)
        => result[w].kind = "return" /\ lock # w

\* the key at the head of the metrics dict that worker w is going through
UserKey(w) == Head(local[w].todo)[1]

InitialReportKeys ==
    {"exs", "accuracy", "f1"} \cup {HitsKey(k) : k \in Range(eval_pr)}
        \cup Range(InitMetricsList(TRUE, TRUE))

\* C9: on a shared accumulator no step changes the table's key set or
\* metrics_list; the step of update() that meets a key of the metrics dict
\* which is neither reserved nor registered changes nothing in the table and
\* goes on to the next item, the step that meets a registered key adds its
\* value holding the lock, and no report() has another key than those
\* registered at construction.
C9_SharedIgnoresNewKey ==
    [][shared =>
        /\ DOMAIN metrics' = DOMAIN metrics
        /\ metrics_list' = metrics_list
        /\ \A w \in Workers :
            /\ (pc[w] = "u316" /\ StepOf(w) /\ local[w].todo # << >>
                    /\ UserKey(w) \notin ReservedUserKeys)
                => IF UserKey(w) \in Range(metrics_list)
                   THEN /\ lock' = w
                        /\ metrics'[UserKey(w)]
                            = metrics[UserKey(w)] + Head(local[w].todo)[2]
                   ELSE /\ metrics' = metrics
                        /\ pc'[w] = "u316"
                        /\ local'[w].todo = Tail(local[w].todo)
            /\ (result'[w].kind = "return" /\ result'[w].op = "report")
                => DOMAIN result'[w].val \subseteq InitialReportKeys]_vars

\* a worker has completed, on a shared accumulator, an update() whose metrics
\* dict holds the unregistered key "reward" and the registered key "loss"
C9_Witness ==
    /\ shared
    /\ \E w \in Workers :
        /\ FinishedUpdate(w)
        /\ result[w].kind = "return"
        /\ result[w].of.obs.metrics # None
        /\ \E i \in 1..Len(Val(result[w].of.obs.metrics)) :
                Val(result[w].of.obs.metrics)[i][1] = "reward"
    /\ "reward" \notin DOMAIN metrics
    /\ metrics["loss_cnt"] >= One

\* the custom keys registered by update()
CustomKeys == Range(metrics_list) \ Range(InitMetricsList(TRUE, TRUE))

\* C10: on an accumulator that is not shared, report() succeeds, and every
\* custom key that was registered has its counter in the table and, when
\* examples were counted, is reported as sum / max(1, count) rounded to 4
\* significant figures.
C10_CustomKeyReported ==
    \A w \in Workers :
        (~shared /\ FinishedReport(w))
        => /\ result[w].kind = "return"
           /\ \A k \in CustomKeys :
                /\ CntKey(k) \in DOMAIN metrics
                /\ (metrics["cnt"] > 0 /\ metrics[CntKey(k)] > 0)
                    => /\ k \in DOMAIN result[w].val
                       /\ result[w].val[k] =
                            round_sigfigs(metrics[k],
                                          Max(One, metrics[CntKey(k)]), 4)


\* --------------------------------------------------------------------- C11
ClearPcs == {"c378", "c380", "c391"}

\* worker w takes the last step of a call
Finishing(w) == pc[w] # "idle" /\ pc'[w] = "idle"

\* the table with every sum and counter at zero and every Counter empty
Zeroed(m) == [k \in DOMAIN m |-> IF k \in InterKeys THEN EmptyCounter ELSE 0]

\* C11: a clear() of an accumulator that is not shared keeps every key of the
\* table and of metrics_list and leaves every sum, every counter and every
\* hits@ entry at zero and every inter-distinct Counter empty; a second
\* clear() would change nothing; a report() made while no update() has
\* followed the last clear(), or the construction, is exactly {exs: 0}.
C11_ClearResets ==
    [][\A w \in Workers :
        /\ pc[w] \in ClearPcs =>
              /\ metrics_list' = metrics_list
              /\ DOMAIN metrics' = DOMAIN metrics
        /\ (pc[w] \in ClearPcs /\ Finishing(w)) =>
              /\ result'[w] = [of |-> [op |-> "clear"]] @@ Returned("clear", None)
              /\ metrics' = Zeroed(metrics)
              /\ ClearCrs(ClearList([metrics' EXCEPT !["cnt"] = 0],
                                    metrics_list')) = metrics'
        /\ (pc[w] \in ReportPcs /\ Finishing(w) /\ log.updates = 0) =>
              result'[w] = [of |-> [op |-> "report"]]
                            @@ Returned("report", [exs |-> 0])
      ]_vars


\* --------------------------------------------------------------------- C12
HitsKeys == {HitsKey(k) : k \in Range(eval_pr)} \cup {"hits@_cnt"}

\* some candidate at a rank <= k equals a reference after normalization
MatchWithin(cands, labels, k) ==
    \E c \in 1..Min(k, Len(cands)) :
        \E l \in 1..Len(labels) :
            normalize_answer(cands[c]) = normalize_answer(labels[l])

\* C12: in an update() of an accumulator that is not shared, the hits@
\* entries change in the ranking section only; there hits@_cnt grows by one
\* and hits@K grows by one exactly when a candidate at a rank <= K matches a
\* reference; an update() with text_candidates ends after that section; an
\* update() without text_candidates changes no hits@ entry and not the flag
\* has_text_cands.
C12_RankingCounters ==
    [][\A w \in Workers :
        call[w].op = "update" =>
          LET cands == call[w].obs.text_candidates
          IN /\ pc[w] = "u271" =>
                  /\ cands # None
                  /\ metrics'["hits@_cnt"] = metrics["hits@_cnt"] + One
                  /\ \A k \in Range(eval_pr) :
                        metrics'[HitsKey(k)] = metrics[HitsKey(k)] +
                            (IF MatchWithin(Val(cands), Val(call[w].labels), k)
                             THEN One ELSE 0)
             /\ pc[w] # "u271" =>
                  \A x \in HitsKeys : metrics'[x] = metrics[x]
             /\ cands = None => flags'.has_text_cands = flags.has_text_cands
             /\ (cands # None /\ Finishing(w)) =>
                  pc[w] \in {"u315", "u316", "u321"}
      ]_vars


\* --------------------------------------------------------------------- C13
\* the entries that update() folds from the prediction text
TextKeys ==
    {"correct", "correct_cnt", "f1", "f1_cnt", "bleu_cnt", "rouge_cnt",
     "intra-distinct_cnt"}
    \cup BleuKeys \cup Range(RougeKeys) \cup IntraKeys \cup InterKeys

\* C13: an update() without prediction text, on an accumulator that is not
\* shared, adds one to cnt (in its first section, and nowhere else) and
\* changes no entry folded from the prediction text and not the flag
\* print_prediction_metrics; when N updates, exactly one of them without
\* prediction text, have run since the construction or the last clear(),
\* cnt is N and correct_cnt is N - 1.
C13_NoPredictionFrame ==
    [][\A w \in Workers :
        /\ (call[w].op = "update" /\ call[w].obs.text = None) =>
              /\ metrics'["cnt"] =
                    metrics["cnt"] + (IF pc[w] = "u278" THEN One ELSE 0)
              /\ \A k \in TextKeys \cap DOMAIN metrics :
                    metrics'[k] = metrics[k]
              /\ flags'.print_prediction_metrics
                    = flags.print_prediction_metrics
        /\ (Quiescent' /\ ~shared /\ log'.updates - log'.texts = 1) =>
              /\ metrics'["cnt"] = log'.updates * One
              /\ metrics'["correct_cnt"] = (log'.updates - 1) * One
      ]_vars


InUnitInterval(d) ==
    /\ d.m > 0
    /\ IF d.e >= 0 THEN d.m * Pow10(d.e) <= 1 ELSE d.m <= Pow10(0 - d.e)

CounterKeys ==
    {"cnt", "hits@_cnt", "bleu_cnt", "rouge_cnt", "intra-distinct_cnt"}
    \cup {CntKey(k) : k \in {"mean_rank", "loss", "correct", "f1", "ppl",
                             "reward", "tok-acc", "rouge-w"}}

\* C16: no step of an update() or of a report() decreases a counter.
C16_CountersMonotone ==
    [][\A w \in Workers :
        (call[w].op \in {"update", "report"} /\ StepOf(w)) =>
            \A c \in CounterKeys \cap DOMAIN metrics :
                metrics'[c] >= metrics[c]
      ]_vars


\* --------------------------------------------------------------------- C17
\* 1 when the normalized prediction c.obs.text equals a normalized reference
\* of c.labels, else 0; a function of the arguments of the call alone
CorrectOf(c) ==
    IF /\ c.obs.text # None
       /\ c.labels # None
       /\ \E i \in 1..Len(Val(c.labels)) :
             normalize_answer(Val(c.obs.text)) = normalize_answer(Val(c.labels)[i])
    THEN One ELSE 0

\* C17: whatever the state of the accumulator, an update() returns
\* {correct: c} with c = 1 when the normalized prediction equals a
\* normalized reference and c = 0 otherwise, also without a prediction.
C17_ReturnsCorrect ==
    \A w \in Workers :
        FinishedUpdate(w)
        => /\ result[w].kind = "return"
           /\ result[w].val = [correct |-> CorrectOf(result[w].of)]

\* --------------------------------------------------------------------- C18
\* the positions inside a "with self._lock():" block
HeldPcs ==
    {"u278", "u288", "u289", "u296", "u300", "u306", "u271", "u321",
     "c380", "c391"}

\* the mutex is held exactly by the worker that is inside a locked section
LockDiscipline ==
    /\ \A w \in Workers : lock = w <=> pc[w] \in HeldPcs
    /\ lock = Free <=> \A w \in Workers : pc[w] \notin HeldPcs

\* while a call is running, some running call can take a step
NoDeadlock ==
    (\E w \in Workers : pc[w] # "idle")
    => \E w \in Workers : ENABLED LockStep(w)

\* a worker takes the mutex only when it is free and the worker is outside
\* every locked section
NoNestedAcquire ==
    [][\A w \in Workers :
        (lock' = w /\ lock # w) => (lock = Free /\ pc[w] \notin HeldPcs)
      ]_vars

C19_CountersBelowCnt ==
    shared =>
        /\ metrics["correct_cnt"] <= metrics["cnt"]
        /\ metrics["f1_cnt"] <= metrics["cnt"]
        /\ metrics["hits@_cnt"] <= metrics["cnt"]


\* --------------------------------------------------------------------- C20
\* no worker is inside a "with self._lock():" block
MutexFree == lock = Free /\ \A w \in Workers : pc[w] \notin HeldPcs

\* C20: while no observation has carried a metrics dict, in every state in
\* which the mutex is free, 0 <= correct <= correct_cnt and
\* 0 <= hits@1 <= hits@5 <= hits@10 <= hits@100 <= hits@_cnt.
C20_Ordering ==
    (log.dicts = 0 /\ MutexFree)
    => /\ 0 <= metrics["correct"]
       /\ metrics["correct"] <= metrics["correct_cnt"]
       /\ 0 <= metrics["hits@1"]
       /\ metrics["hits@1"] <= metrics["hits@5"]
       /\ metrics["hits@5"] <= metrics["hits@10"]
       /\ metrics["hits@10"] <= metrics["hits@100"]
       /\ metrics["hits@100"] <= metrics["hits@_cnt"]

\* on a shared accumulator, after a clear() and without any metrics dict, a
\* prediction that matches no reference and a match at rank 2 were folded
\* while the other worker is in the middle of a call
C20_Witness ==
    /\ shared
    /\ log.dicts = 0
    /\ log.clears >= 1
    /\ MutexFree
    /\ \E w \in Workers : pc[w] \notin {"idle", "u277", "c378"}
    /\ metrics["correct"] < metrics["correct_cnt"]
    /\ metrics["hits@1"] = 0
    /\ metrics["hits@5"] = One
    /\ metrics["hits@_cnt"] = One

====
